---- MODULE Spec2Model ----
(***************************************************************************)
(* Job control of myshell.py: the job table, the pid index, the foreground *)
(* slot, the SIGCHLD reaper, fg/bg/kill, foreground and background launch  *)
(* and the pruning of finished entries, together with the operating        *)
(* system's child table that waitpid and killpg act on.                    *)
(***************************************************************************)
EXTENDS Integers, Sequences, FiniteSets, TLC

\* ---- bounds of the model ----
MaxProcs == 2          \* number of external processes spawned in one run
MaxTime == 61          \* the clock stops advancing after this many seconds

\* ---- program constants ----
DONE_ENTRY_TTL == 60   \* myshell.py:25
SIGINT == 2
SIGTERM == 15
SIGCONT == 18
SIGTSTP == 20

Pids == 1..MaxProcs
ExitCodes == {0, 1}
TermSignals == {SIGINT}
TickSteps == {DONE_ENTRY_TTL, DONE_ENTRY_TTL + 1}
NoPid == 0             \* foreground_pid = None
NoJid == 0             \* no job id argument / no local jid
NoCode == -1           \* exitcode = None

Running == <<"Running", 0>>
Stopped == <<"Stopped", 0>>
Done == <<"Done", 0>>
Exited(c) == <<"Exited", c>>
Signaled(s) == <<"Signaled", s>>

NoStatus == <<"none", 0>>
NoStep == <<"none", 0>>

VARIABLES
    jobs,            \* OrderedDict jid -> record, as the sequence of its items
    next_job_id,
    pid_to_jid,
    foreground_pid,
    proc,            \* the kernel's view of each child: state, pending wait event, cause of death
    next_pid,        \* the pid the next spawn receives
    now,             \* time.time()
    pc,              \* position of the main thread
    last,            \* the last step, when the main thread took it: <<operation, argument>>
    jid,             \* local jid of builtin_fg / builtin_bg
    pid,             \* local pid / proc.pid of builtin_fg, builtin_bg, launch_external
    wstatus,         \* (wpid, status) a blocking waitpid has returned, not yet interpreted
    sent,            \* signals the last step has sent with killpg: <<pgid, signal>>
    pruning,         \* <<table>> the last step handed to prune_done_jobs, <<>> when it did not prune
    assigned,        \* history: every job id handed out, in order
    reports          \* history: per pid, how many waits have returned its termination

vars == <<jobs, next_job_id, pid_to_jid, foreground_pid, proc, next_pid, now, pc,
          last, jid, pid, wstatus, sent, pruning, assigned, reports>>

\* ---- the job table ----
JobIds(js) == {js[i].jid : i \in 1..Len(js)}
HasJob(js, j) == \E i \in 1..Len(js) : js[i].jid = j
\* find_job_by_jid, for a jid that is present
find_job_by_jid(js, j) == js[CHOOSE i \in 1..Len(js) : js[i].jid = j]
SetStatus(js, j, st) ==
    [i \in 1..Len(js) |-> IF js[i].jid = j THEN [js[i] EXCEPT !.status = st] ELSE js[i]]
SetExitcode(js, j, c) ==
    [i \in 1..Len(js) |-> IF js[i].jid = j THEN [js[i] EXCEPT !.exitcode = c] ELSE js[i]]
IdxPop(idx, p) == [q \in DOMAIN idx \ {p} |-> idx[q]]
IdxPut(idx, p, j) == [q \in DOMAIN idx \cup {p} |-> IF q = p THEN j ELSE idx[q]]
IsTerminal(st) == st[1] \in {"Exited", "Signaled", "Done"}

\* _get_next_job_id: the id handed out for counter value n
\* variant, not the program's: the id after the last record's (ids of pruned jobs come back)
GetNextJobIdReuse(js, n) == IF Len(js) = 0 THEN 1 ELSE js[Len(js)].jid + 1
_get_next_job_id(js, n) == n

\* add_job: returns the new table, index and counter
add_job(js, idx, n, p, st, t) ==
    LET j == _get_next_job_id(js, n) IN
    [jobs |-> Append(js, [jid |-> j, pid |-> p, status |-> st,
                          start_time |-> t, exitcode |-> NoCode]),
     pid_to_jid |-> IdxPut(idx, p, j),
     next_job_id |-> n + 1,
     jid |-> j]

update_job_status(js, idx, p, st, c) ==
    IF p \in DOMAIN idx /\ HasJob(js, idx[p])
    THEN LET js1 == SetStatus(js, idx[p], st) IN
         IF c # NoCode THEN SetExitcode(js1, idx[p], c) ELSE js1
    ELSE js

\* variant, not the program's: the pid stays in the index when the job is done
MarkJobDoneKeepsIndex(js, idx, p, c) ==
    IF p \in DOMAIN idx /\ HasJob(js, idx[p])
    THEN [jobs |-> IF c # NoCode
                   THEN SetExitcode(SetStatus(js, idx[p], Exited(c)), idx[p], c)
                   ELSE SetStatus(js, idx[p], Done),
          pid_to_jid |-> idx]
    ELSE [jobs |-> js, pid_to_jid |-> idx]
mark_job_done(js, idx, p, c) ==
    IF p \in DOMAIN idx /\ HasJob(js, idx[p])
    THEN [jobs |-> IF c # NoCode
                   THEN SetExitcode(SetStatus(js, idx[p], Exited(c)), idx[p], c)
                   ELSE SetStatus(js, idx[p], Done),
          pid_to_jid |-> IdxPop(idx, p)]
    ELSE [jobs |-> js, pid_to_jid |-> idx]

\* ---- the kernel's child table ----
Unborn == [st |-> "unborn", ev |-> "none", how |-> NoStatus]
Alive(pr) == pr.st \in {"run", "stop"}
Exists(pr) == pr.st \in {"run", "stop", "zombie"}      \* getpgid(pid) succeeds
\* waitpid(-1, WNOHANG | WUNTRACED | WCONTINUED) has something to return for pr
Reapable(pr) == pr.st = "zombie" \/ (Alive(pr) /\ pr.ev # "none")
\* waitpid(pid, WUNTRACED) returns for pr
WaitReady(pr) == pr.st = "zombie" \/ (pr.st = "stop" /\ pr.ev = "stopped")
\* the status a wait returns for pr
WaitStatus(pr) == IF pr.st = "zombie" THEN pr.how ELSE <<pr.ev, 0>>
\* the child after a wait has collected that status
Collected(pr) == IF pr.st = "zombie" THEN [pr EXCEPT !.st = "reaped", !.how = NoStatus]
                 ELSE [pr EXCEPT !.ev = "none"]
\* SIGCONT generated for the process group led by p
Continue(pr) == IF pr.st = "stop" THEN [pr EXCEPT !.st = "run", !.ev = "continued"] ELSE pr


\* ---- SIGCHLD: the reaper ----
\* One turn of the handler's loop for the event waitpid(-1, ...) returns for p.
ReapOne(S, p) ==
    LET st == WaitStatus(S.proc[p])
        pr == Collected(S.proc[p])
        S1 == [S EXCEPT !.proc[p] = pr]
    IN  CASE st[1] = "exited" ->
               LET js == update_job_status(S.jobs, S.pid_to_jid, p, Exited(st[2]), st[2])
                   m == mark_job_done(js, S.pid_to_jid, p, st[2])
               IN  [S1 EXCEPT !.jobs = m.jobs, !.pid_to_jid = m.pid_to_jid,
                              !.reports[p] = @ + 1]
          [] st[1] = "signaled" ->
               LET js == update_job_status(S.jobs, S.pid_to_jid, p, Signaled(st[2]), NoCode)
                   m == mark_job_done(js, S.pid_to_jid, p, NoCode)
               IN  [S1 EXCEPT !.jobs = m.jobs, !.pid_to_jid = m.pid_to_jid,
                              !.reports[p] = @ + 1]
          [] st[1] = "stopped" ->
               [S1 EXCEPT !.jobs = update_job_status(S.jobs, S.pid_to_jid, p, Stopped, NoCode)]
          [] st[1] = "continued" ->
               [S1 EXCEPT !.jobs = update_job_status(S.jobs, S.pid_to_jid, p, Running, NoCode)]
          [] OTHER -> S1

\* The handler's while loop: waitpid(-1, WNOHANG | ...) until nothing is pending.
RECURSIVE Drain(_)
Drain(S) ==
    LET pending == {p \in Pids : Reapable(S.proc[p])} IN
    IF pending = {} THEN S
    ELSE Drain(ReapOne(S, CHOOSE p \in pending : \A q \in pending : p <= q))

\* variant, not the program's: the handler also gives up the foreground slot
ReaperClearsSlot ==
    /\ pc # "exited"
    /\ \E p \in Pids : Reapable(proc[p])
    /\ LET S == Drain([jobs |-> jobs, pid_to_jid |-> pid_to_jid,
                       proc |-> proc, reports |-> reports])
       IN  /\ jobs' = S.jobs
           /\ pid_to_jid' = S.pid_to_jid
           /\ proc' = S.proc
           /\ reports' = S.reports
    /\ foreground_pid' = NoPid
    /\ last' = NoStep
    /\ sent' = {}
    /\ pruning' = <<>>
    /\ UNCHANGED <<next_job_id, next_pid, now, pc, jid, pid, wstatus, assigned>>
sigchld_handler ==
    /\ pc # "exited"
    /\ \E p \in Pids : Reapable(proc[p])
    /\ LET S == Drain([jobs |-> jobs, pid_to_jid |-> pid_to_jid,
                       proc |-> proc, reports |-> reports])
       IN  /\ jobs' = S.jobs
           /\ pid_to_jid' = S.pid_to_jid
           /\ proc' = S.proc
           /\ reports' = S.reports
    /\ last' = NoStep
    /\ sent' = {}
    /\ pruning' = <<>>
    /\ UNCHANGED <<next_job_id, foreground_pid, next_pid, now, pc, jid, pid,
                   wstatus, assigned>>

\* ---- SIGINT / SIGTSTP: relay to the foreground job ----
\* os.killpg(os.getpgid(p), sig): the signals it sends ({} when getpgid raises)
Killpg(p, sig) == IF p \in Pids /\ Exists(proc[p]) THEN {<<p, sig>>} ELSE {}

\* variant, not the program's: the interrupt goes to every job of the table as well
SigintToAllJobs ==
    /\ pc # "exited"
    /\ last' = NoStep
    /\ sent' = (IF foreground_pid # NoPid THEN Killpg(foreground_pid, SIGINT) ELSE {})
                 \cup UNION {Killpg(jobs[i].pid, SIGINT) : i \in 1..Len(jobs)}
    /\ pruning' = <<>>
    /\ UNCHANGED <<jobs, next_job_id, pid_to_jid, foreground_pid, proc, next_pid, now,
                   pc, jid, pid, wstatus, assigned, reports>>
sigint_handler ==
    /\ pc # "exited"
    /\ last' = NoStep
    /\ sent' = IF foreground_pid # NoPid THEN Killpg(foreground_pid, SIGINT) ELSE {}
    /\ pruning' = <<>>
    /\ UNCHANGED <<jobs, next_job_id, pid_to_jid, foreground_pid, proc, next_pid, now,
                   pc, jid, pid, wstatus, assigned, reports>>

sigtstp_handler ==
    /\ pc # "exited"
    /\ last' = NoStep
    /\ sent' = IF foreground_pid # NoPid THEN Killpg(foreground_pid, SIGTSTP) ELSE {}
    /\ pruning' = <<>>
    /\ UNCHANGED <<jobs, next_job_id, pid_to_jid, foreground_pid, proc, next_pid, now,
                   pc, jid, pid, wstatus, assigned, reports>>

\* ---- the children and the clock ----
ProcExit(p, c) ==
    /\ pc # "exited"
    /\ proc[p].st = "run"
    /\ proc' = [proc EXCEPT ![p] = [st |-> "zombie", ev |-> "none", how |-> <<"exited", c>>]]
    /\ last' = NoStep
    /\ sent' = {}
    /\ pruning' = <<>>
    /\ UNCHANGED <<jobs, next_job_id, pid_to_jid, foreground_pid, next_pid, now, pc,
                   jid, pid, wstatus, assigned, reports>>

ProcSignaled(p, s) ==
    /\ pc # "exited"
    /\ proc[p].st = "run"
    /\ proc' = [proc EXCEPT ![p] = [st |-> "zombie", ev |-> "none", how |-> <<"signaled", s>>]]
    /\ last' = NoStep
    /\ sent' = {}
    /\ pruning' = <<>>
    /\ UNCHANGED <<jobs, next_job_id, pid_to_jid, foreground_pid, next_pid, now, pc,
                   jid, pid, wstatus, assigned, reports>>

ProcStop(p) ==
    /\ pc # "exited"
    /\ proc[p].st = "run"
    /\ proc' = [proc EXCEPT ![p] = [@ EXCEPT !.st = "stop", !.ev = "stopped"]]
    /\ last' = NoStep
    /\ sent' = {}
    /\ pruning' = <<>>
    /\ UNCHANGED <<jobs, next_job_id, pid_to_jid, foreground_pid, next_pid, now, pc,
                   jid, pid, wstatus, assigned, reports>>

ProcCont(p) ==
    /\ pc # "exited"
    /\ proc[p].st = "stop"
    /\ proc' = [proc EXCEPT ![p] = Continue(@)]
    /\ last' = NoStep
    /\ sent' = {}
    /\ pruning' = <<>>
    /\ UNCHANGED <<jobs, next_job_id, pid_to_jid, foreground_pid, next_pid, now, pc,
                   jid, pid, wstatus, assigned, reports>>

\* time passes while the main thread blocks (in input() or in waitpid)
Tick(d) ==
    /\ pc \in {"prompt", "fg_wait", "launch_wait"}
    /\ now + d <= MaxTime
    /\ now' = now + d
    /\ last' = NoStep
    /\ sent' = {}
    /\ pruning' = <<>>
    /\ UNCHANGED <<jobs, next_job_id, pid_to_jid, foreground_pid, proc, next_pid, pc,
                   jid, pid, wstatus, assigned, reports>>


\* ---- the main thread: one loop iteration is a command followed by prune_done_jobs ----
Spawned == [st |-> "run", ev |-> "none", how |-> NoStatus]

\* the table prune_done_jobs leaves at time t
\* variant, not the program's: prunes at age = DONE_ENTRY_TTL already
PruneAtWindow(js, t) ==
    SelectSeq(js, LAMBDA job : ~(IsTerminal(job.status) /\ t - job.start_time >= DONE_ENTRY_TTL))
\* variant, not the program's: prunes old entries whatever their status
PruneAnyStatus(js, t) ==
    SelectSeq(js, LAMBDA job : ~(t - job.start_time > DONE_ENTRY_TTL))
prune_done_jobs(js, t) ==
    SelectSeq(js, LAMBDA job : ~(IsTerminal(job.status) /\ t - job.start_time > DONE_ENTRY_TTL))

\* the command returns with table js; main() prunes and goes back to input()
EndOfIteration(js) ==
    /\ pruning' = <<js>>
    /\ jobs' = prune_done_jobs(js, now)
    /\ pc' = "prompt"
    /\ jid' = NoJid
    /\ pid' = NoPid

\* subprocess.Popen raises: command not found
\* variant, not the program's: the failed launch has already taken a job id
LaunchFailConsumesId ==
    /\ pc = "prompt"
    /\ last' = <<"launch_fail", 0>>
    /\ sent' = {}
    /\ EndOfIteration(jobs)
    /\ next_job_id' = next_job_id + 1
    /\ UNCHANGED <<pid_to_jid, foreground_pid, proc, next_pid, now,
                   wstatus, assigned, reports>>
launch_external_fail ==
    /\ pc = "prompt"
    /\ last' = <<"launch_fail", 0>>
    /\ sent' = {}
    /\ EndOfIteration(jobs)
    /\ UNCHANGED <<next_job_id, pid_to_jid, foreground_pid, proc, next_pid, now,
                   wstatus, assigned, reports>>

\* subprocess.Popen succeeds; a foreground launch takes the foreground slot
launch_external_spawn(bg) ==
    /\ pc = "prompt"
    /\ next_pid <= MaxProcs
    /\ last' = <<IF bg THEN "launch&" ELSE "launch", 0>>
    /\ proc' = [proc EXCEPT ![next_pid] = Spawned]
    /\ next_pid' = next_pid + 1
    /\ pid' = next_pid
    /\ foreground_pid' = IF bg THEN foreground_pid ELSE next_pid
    /\ pc' = IF bg THEN "launch_bg" ELSE "launch_wait"
    /\ sent' = {}
    /\ pruning' = <<>>
    /\ UNCHANGED <<jobs, next_job_id, pid_to_jid, now, jid, wstatus, assigned, reports>>

\* background: add_job(proc, cmdline, "Running")
launch_external_add ==
    /\ pc = "launch_bg"
    /\ last' = <<"launch_add", 0>>
    /\ LET R == add_job(jobs, pid_to_jid, next_job_id, pid, Running, now)
       IN  /\ EndOfIteration(R.jobs)
           /\ pid_to_jid' = R.pid_to_jid
           /\ next_job_id' = R.next_job_id
           /\ assigned' = Append(assigned, R.jid)
    /\ sent' = {}
    /\ UNCHANGED <<foreground_pid, proc, next_pid, now, wstatus, reports>>

\* os.waitpid(pid, os.WUNTRACED) returns a status
\* variant, not the program's: the wait returns the status but leaves the child to be waited for again
WaitReturnNoReap(next) ==
    /\ WaitReady(proc[pid])
    /\ last' = <<"wait", 0>>
    /\ wstatus' = WaitStatus(proc[pid])
    /\ proc' = [proc EXCEPT ![pid] = [@ EXCEPT !.ev = "none"]]
    /\ reports' = IF proc[pid].st = "zombie"
                  THEN [reports EXCEPT ![pid] = @ + 1] ELSE reports
    /\ pc' = next
    /\ sent' = {}
    /\ pruning' = <<>>
    /\ UNCHANGED <<jobs, next_job_id, pid_to_jid, foreground_pid, next_pid, now,
                   jid, pid, assigned>>
WaitReturn(next) ==
    /\ WaitReady(proc[pid])
    /\ last' = <<"wait", 0>>
    /\ wstatus' = WaitStatus(proc[pid])
    /\ proc' = [proc EXCEPT ![pid] = Collected(@)]
    /\ reports' = IF proc[pid].st = "zombie"
                  THEN [reports EXCEPT ![pid] = @ + 1] ELSE reports
    /\ pc' = next
    /\ sent' = {}
    /\ pruning' = <<>>
    /\ UNCHANGED <<jobs, next_job_id, pid_to_jid, foreground_pid, next_pid, now,
                   jid, pid, assigned>>

\* os.waitpid(pid, os.WUNTRACED) raises ChildProcessError: except Exception: pass
\* variant, not the program's: the error path leaves foreground_pid set
WaitErrorKeepsSlot ==
    /\ proc[pid].st = "reaped"
    /\ last' = <<"wait_error", 0>>
    /\ sent' = {}
    /\ EndOfIteration(jobs)
    /\ UNCHANGED <<next_job_id, pid_to_jid, foreground_pid, proc, next_pid, now, wstatus,
                   assigned, reports>>
WaitError ==
    /\ proc[pid].st = "reaped"
    /\ last' = <<"wait_error", 0>>
    /\ foreground_pid' = NoPid
    /\ sent' = {}
    /\ EndOfIteration(jobs)
    /\ UNCHANGED <<next_job_id, pid_to_jid, proc, next_pid, now, wstatus, assigned, reports>>

launch_wait_return == pc = "launch_wait" /\ WaitReturn("launch_got")
launch_wait_error == pc = "launch_wait" /\ WaitError

\* foreground launch: the branches on the returned status
\* variant, not the program's: the foreground launch registers no job when the wait returned a stop
LaunchGotForgetsStop ==
    /\ pc = "launch_got"
    /\ last' = <<"launch_got", 0>>
    /\ EndOfIteration(jobs)
    /\ foreground_pid' = NoPid
    /\ wstatus' = NoStatus
    /\ sent' = {}
    /\ UNCHANGED <<pid_to_jid, next_job_id, assigned, proc, next_pid, now, reports>>
\* variant, not the program's: the foreground launch registers a job whatever the wait returned
LaunchGotAlwaysAdds ==
    /\ pc = "launch_got"
    /\ last' = <<"launch_got", 0>>
    /\ LET R == add_job(jobs, pid_to_jid, next_job_id, pid, Stopped, now)
       IN  /\ EndOfIteration(R.jobs)
           /\ pid_to_jid' = R.pid_to_jid
           /\ next_job_id' = R.next_job_id
           /\ assigned' = Append(assigned, R.jid)
    /\ foreground_pid' = NoPid
    /\ wstatus' = NoStatus
    /\ sent' = {}
    /\ UNCHANGED <<proc, next_pid, now, reports>>
launch_got ==
    /\ pc = "launch_got"
    /\ last' = <<"launch_got", 0>>
    /\ IF wstatus[1] = "stopped"
       THEN LET R == add_job(jobs, pid_to_jid, next_job_id, pid, Stopped, now)
            IN  /\ EndOfIteration(R.jobs)
                /\ pid_to_jid' = R.pid_to_jid
                /\ next_job_id' = R.next_job_id
                /\ assigned' = Append(assigned, R.jid)
       ELSE /\ EndOfIteration(jobs)
            /\ UNCHANGED <<pid_to_jid, next_job_id, assigned>>
    /\ foreground_pid' = NoPid
    /\ wstatus' = NoStatus
    /\ sent' = {}
    /\ UNCHANGED <<proc, next_pid, now, reports>>

\* next(reversed(jobs))
\* variant, not the program's: the first inserted job
LastJobFirst(js) == js[1].jid
LastJob(js) == js[Len(js)].jid

\* the jid builtin_fg / builtin_bg work on, NoJid when there is none
\* variant, not the program's: an unknown id falls back to the last inserted job
SelectJobFallback(js, arg) ==
    IF Len(js) = 0 THEN NoJid
    ELSE IF arg # NoJid /\ HasJob(js, arg) THEN arg ELSE LastJob(js)
SelectJob(js, arg) ==
    IF arg # NoJid THEN (IF HasJob(js, arg) THEN arg ELSE NoJid)
    ELSE IF Len(js) = 0 THEN NoJid ELSE LastJob(js)

JidArgs == 0..(MaxProcs + 1)

\* fg: no current job / job not found
builtin_fg_none(arg) ==
    /\ pc = "prompt"
    /\ SelectJob(jobs, arg) = NoJid
    /\ last' = <<"fg", arg>>
    /\ sent' = {}
    /\ EndOfIteration(jobs)
    /\ UNCHANGED <<next_job_id, pid_to_jid, foreground_pid, proc, next_pid, now,
                   wstatus, assigned, reports>>

\* fg: SIGCONT to the group, status Running, take the foreground slot
builtin_fg(arg) ==
    /\ pc = "prompt"
    /\ SelectJob(jobs, arg) # NoJid
    /\ LET j == SelectJob(jobs, arg)
           p == find_job_by_jid(jobs, j).pid
       IN  /\ last' = <<"fg", arg>>
           /\ jid' = j
           /\ pid' = p
           /\ sent' = Killpg(p, SIGCONT)
           /\ proc' = [proc EXCEPT ![p] = Continue(@)]
           /\ jobs' = SetStatus(jobs, j, Running)
           /\ foreground_pid' = p
    /\ pc' = "fg_wait"
    /\ pruning' = <<>>
    /\ UNCHANGED <<next_job_id, pid_to_jid, next_pid, now, wstatus, assigned, reports>>

fg_wait_return == pc = "fg_wait" /\ WaitReturn("fg_got")
fg_wait_error == pc = "fg_wait" /\ WaitError

\* fg: the branches on the returned status
fg_got ==
    /\ pc = "fg_got"
    /\ last' = <<"fg_got", 0>>
    /\ CASE wstatus[1] = "stopped" ->
              /\ EndOfIteration(SetStatus(jobs, jid, Stopped))
              /\ pid_to_jid' = IdxPut(pid_to_jid, pid, jid)
         [] wstatus[1] = "exited" ->
              /\ EndOfIteration(SetExitcode(SetStatus(jobs, jid, Exited(wstatus[2])),
                                            jid, wstatus[2]))
              /\ pid_to_jid' = IdxPop(pid_to_jid, pid)
         [] wstatus[1] = "signaled" ->
              /\ EndOfIteration(SetStatus(jobs, jid, Signaled(wstatus[2])))
              /\ pid_to_jid' = IdxPop(pid_to_jid, pid)
    /\ foreground_pid' = NoPid
    /\ wstatus' = NoStatus
    /\ sent' = {}
    /\ UNCHANGED <<next_job_id, proc, next_pid, now, assigned, reports>>

\* bg: no current job / job not found / killpg raises
builtin_bg_none(arg) ==
    /\ pc = "prompt"
    /\ \/ SelectJob(jobs, arg) = NoJid
       \/ /\ SelectJob(jobs, arg) # NoJid
          /\ ~Exists(proc[find_job_by_jid(jobs, SelectJob(jobs, arg)).pid])
    /\ last' = <<"bg", arg>>
    /\ sent' = {}
    /\ EndOfIteration(jobs)
    /\ UNCHANGED <<next_job_id, pid_to_jid, foreground_pid, proc, next_pid, now,
                   wstatus, assigned, reports>>

\* bg: os.killpg(os.getpgid(pid), signal.SIGCONT) succeeds
builtin_bg(arg) ==
    /\ pc = "prompt"
    /\ SelectJob(jobs, arg) # NoJid
    /\ LET j == SelectJob(jobs, arg)
           p == find_job_by_jid(jobs, j).pid
       IN  /\ Exists(proc[p])
           /\ last' = <<"bg", arg>>
           /\ jid' = j
           /\ pid' = p
           /\ sent' = Killpg(p, SIGCONT)
           /\ proc' = [proc EXCEPT ![p] = Continue(@)]
    /\ pc' = "bg_sent"
    /\ pruning' = <<>>
    /\ UNCHANGED <<jobs, next_job_id, pid_to_jid, foreground_pid, next_pid, now,
                   wstatus, assigned, reports>>

\* bg: job["status"] = "Running"; pid_to_jid[pid] = jid
bg_sent ==
    /\ pc = "bg_sent"
    /\ last' = <<"bg_sent", 0>>
    /\ EndOfIteration(SetStatus(jobs, jid, Running))
    /\ pid_to_jid' = IdxPut(pid_to_jid, pid, jid)
    /\ sent' = {}
    /\ UNCHANGED <<next_job_id, foreground_pid, proc, next_pid, now,
                   wstatus, assigned, reports>>

\* kill %arg
builtin_kill(arg) ==
    /\ pc = "prompt"
    /\ arg # NoJid
    /\ last' = <<"kill%", arg>>
    /\ sent' = IF HasJob(jobs, arg) THEN Killpg(find_job_by_jid(jobs, arg).pid, SIGTERM)
               ELSE {}
    /\ EndOfIteration(jobs)
    /\ UNCHANGED <<next_job_id, pid_to_jid, foreground_pid, proc, next_pid, now,
                   wstatus, assigned, reports>>

\* an empty line, a parse error, or a builtin that leaves the job table alone
parse_and_execute_other ==
    /\ pc = "prompt"
    /\ last' = <<"other", 0>>
    /\ sent' = {}
    /\ EndOfIteration(jobs)
    /\ UNCHANGED <<next_job_id, pid_to_jid, foreground_pid, proc, next_pid, now,
                   wstatus, assigned, reports>>

\* the line "&": tokens becomes [] and cmd = tokens[0] raises IndexError, which
\* parse_and_execute does not catch; main() catches it outside its while loop
parse_and_execute_amp ==
    /\ pc = "prompt"
    /\ last' = <<"amp", 0>>
    /\ pc' = "exited"
    /\ sent' = {}
    /\ pruning' = <<>>
    /\ UNCHANGED <<jobs, next_job_id, pid_to_jid, foreground_pid, proc, next_pid, now,
                   jid, pid, wstatus, assigned, reports>>

\* exit: SIGTERM to the group of every job in the table, then sys.exit(0)
builtin_exit ==
    /\ pc = "prompt"
    /\ last' = <<"exit", 0>>
    /\ sent' = UNION {Killpg(jobs[i].pid, SIGTERM) : i \in 1..Len(jobs)}
    /\ pc' = "exited"
    /\ pruning' = <<>>
    /\ UNCHANGED <<jobs, next_job_id, pid_to_jid, foreground_pid, proc, next_pid, now,
                   jid, pid, wstatus, assigned, reports>>

\* input() raises EOFError: the loop breaks
end_of_input ==
    /\ pc = "prompt"
    /\ last' = <<"eof", 0>>
    /\ pc' = "exited"
    /\ sent' = {}
    /\ pruning' = <<>>
    /\ UNCHANGED <<jobs, next_job_id, pid_to_jid, foreground_pid, proc, next_pid, now,
                   jid, pid, wstatus, assigned, reports>>

Init ==
    /\ jobs = <<>>
    /\ next_job_id = 1
    /\ pid_to_jid = [q \in {} |-> NoJid]
    /\ foreground_pid = NoPid
    /\ proc = [p \in Pids |-> Unborn]
    /\ next_pid = 1
    /\ now = 0
    /\ pc = "prompt"
    /\ last = NoStep
    /\ jid = NoJid
    /\ pid = NoPid
    /\ wstatus = NoStatus
    /\ sent = {}
    /\ pruning = <<>>
    /\ assigned = <<>>
    /\ reports = [p \in Pids |-> 0]

Next ==
    \/ launch_external_fail
    \/ \E bg \in BOOLEAN : launch_external_spawn(bg)
    \/ launch_external_add
    \/ launch_wait_return
    \/ launch_wait_error
    \/ launch_got
    \/ \E arg \in JidArgs : builtin_fg_none(arg)
    \/ \E arg \in JidArgs : builtin_fg(arg)
    \/ fg_wait_return
    \/ fg_wait_error
    \/ fg_got
    \/ \E arg \in JidArgs : builtin_bg_none(arg)
    \/ \E arg \in JidArgs : builtin_bg(arg)
    \/ bg_sent
    \/ \E arg \in JidArgs : builtin_kill(arg)
    \/ parse_and_execute_other
    \/ parse_and_execute_amp
    \/ builtin_exit
    \/ end_of_input
    \/ sigchld_handler
    \/ sigint_handler
    \/ sigtstp_handler
    \/ \E p \in Pids, c \in ExitCodes : ProcExit(p, c)
    \/ \E p \in Pids, s \in TermSignals : ProcSignaled(p, s)
    \/ \E p \in Pids : ProcStop(p)
    \/ \E p \in Pids : ProcCont(p)
    \/ \E d \in TickSteps : Tick(d)

Spec == Init /\ [][Next]_vars

TypeOK ==
    /\ next_job_id \in 1..(MaxProcs + 1)
    /\ foreground_pid \in {NoPid} \cup Pids
    /\ now \in 0..MaxTime
    /\ \A i \in 1..Len(jobs) : jobs[i].pid \in Pids

\* ---- helpers of the properties ----
Records(js) == {js[i] : i \in 1..Len(js)}
Indexed(r) == r.pid \in DOMAIN pid_to_jid /\ pid_to_jid[r.pid] = r.jid
IsLive(st) == st \in {Running, Stopped}
Age(r) == now - r.start_time
InFgWait == pc \in {"launch_wait", "launch_got", "fg_wait", "fg_got"}
\* position of job id j in the history of assigned ids
Pos(j) == CHOOSE i \in 1..Len(assigned) : assigned[i] = j
\* the record of the table inserted last, by the history of assigned ids
MostRecent(js) == CHOOSE j \in JobIds(js) : \A k \in JobIds(js) : Pos(k) <= Pos(j)

\* C1: in every reachable state a record's pid resolves through the pid index
\* iff the record's status is Running or Stopped.
C1_IndexIffLive ==
    \A r \in Records(jobs) : Indexed(r) <=> IsLive(r.status)

\* C2: once a record's status is Exited(code) or Signaled(signal), every later
\* step leaves that status as it is or removes the record.
C2_TerminalAbsorbing ==
    [][\A r \in Records(jobs) :
          r.status[1] \in {"Exited", "Signaled"} =>
              \/ ~HasJob(jobs', r.jid)
              \/ find_job_by_jid(jobs', r.jid).status = r.status]_vars

\* C3: when the foreground process stops during a foreground wait, the wait
\* returns.  A blocked waitpid(pid, WUNTRACED) returns for a stop only while
\* the stop is still pending for it, so the claim needs: whenever the main
\* thread is blocked in the foreground wait on a stopped process, that stop
\* is still there for the wait to collect.
C3_StopReachesWait ==
    (pc \in {"launch_wait", "fg_wait"} /\ proc[pid].st = "stop")
        => proc[pid].ev = "stopped"

\* C4: no child's termination is returned by more than one wait (the reaper's
\* waitpid(-1) and the foreground waitpid(pid) together).
C4_ReportedOnce ==
    \A p \in Pids : reports[p] <= 1
C4_Witness ==
    \E p, q \in Pids :
        /\ p # q
        /\ reports[p] = 1 /\ reports[q] = 1
        /\ last = <<"wait", 0>> /\ wstatus[1] \in {"exited", "signaled"}

\* C5: when a wait collects the termination by signal s of a tracked job's
\* process, the job's record gets status Signaled(s) and its pid leaves the
\* index, in the reaper as in the foreground wait of fg.
C5_SignaledRecorded ==
    [][/\ \A r \in Records(jobs) :
            (/\ IsLive(r.status) /\ Indexed(r)
             /\ proc[r.pid].st = "zombie" /\ proc[r.pid].how[1] = "signaled"
             /\ proc'[r.pid].st = "reaped" /\ pc' = pc /\ wstatus' = wstatus)
            => /\ HasJob(jobs', r.jid)
               /\ find_job_by_jid(jobs', r.jid).status = Signaled(proc[r.pid].how[2])
               /\ r.pid \notin DOMAIN pid_to_jid'
       /\ (pc = "fg_got" /\ wstatus[1] = "signaled" /\ pc' = "prompt")
            => /\ HasJob(pruning'[1], jid)
               /\ find_job_by_jid(pruning'[1], jid).status = Signaled(wstatus[2])
               /\ pid \notin DOMAIN pid_to_jid']_vars

\* C6: job ids are handed out starting at 1, each greater than every id
\* handed out before it, none twice, also after records have been pruned.
C6_JobIdsIncrease ==
    /\ Len(assigned) > 0 => assigned[1] = 1
    /\ \A i, k \in 1..Len(assigned) : i < k => assigned[i] < assigned[k]
    /\ JobIds(jobs) \subseteq {assigned[i] : i \in 1..Len(assigned)}
C6_Witness ==
    /\ Len(assigned) = 2
    /\ ~HasJob(jobs, assigned[1])
    /\ HasJob(jobs, assigned[2])

\* C7: a prune keeps every Running or Stopped record whatever its age, removes
\* every terminal record older than the retention window, and keeps every
\* terminal record that is not older than the window.
C7_PruneExact ==
    pruning # <<>> =>
        /\ Records(jobs) \subseteq Records(pruning[1])
        /\ \A r \in Records(pruning[1]) :
              /\ IsLive(r.status) => r \in Records(jobs)
              /\ (IsTerminal(r.status) /\ Age(r) > DONE_ENTRY_TTL) => r \notin Records(jobs)
              /\ (IsTerminal(r.status) /\ Age(r) <= DONE_ENTRY_TTL) => r \in Records(jobs)
C7_Witness ==
    /\ pruning # <<>>
    /\ \E r \in Records(pruning[1]) :
          IsTerminal(r.status) /\ Age(r) > DONE_ENTRY_TTL /\ r \notin Records(jobs)
    /\ \E r \in Records(pruning[1]) :
          IsLive(r.status) /\ Age(r) > DONE_ENTRY_TTL /\ r \in Records(jobs)

\* C8: fg and bg without a job id work on the record inserted last among those
\* still in the table, whatever the statuses of the records.
C8_LastInserted ==
    /\ (pc = "fg_wait" /\ last = <<"fg", NoJid>>) => jid = MostRecent(jobs)
    /\ (pc = "bg_sent" /\ last = <<"bg", NoJid>>) => jid = MostRecent(jobs)
C8_Witness ==
    /\ pc = "fg_wait" /\ last = <<"fg", NoJid>>
    /\ Len(jobs) = 2
    /\ jid = jobs[2].jid
    /\ proc[pid].st = "reaped"
    /\ jobs[1].status = Stopped

\* C9: bg on a job whose status is Stopped sends SIGCONT to the job's process
\* group, then sets the status Running and the pid index entry, and returns to
\* the prompt without a wait; the foreground slot stays empty throughout.
C9_BgResumesStopped ==
    [][/\ \A arg \in JidArgs :
            (/\ pc = "prompt" /\ last' = <<"bg", arg>>
             /\ SelectJob(jobs, arg) # NoJid
             /\ find_job_by_jid(jobs, SelectJob(jobs, arg)).status = Stopped)
            => /\ <<find_job_by_jid(jobs, SelectJob(jobs, arg)).pid, SIGCONT>> \in sent'
               /\ pc' = "bg_sent"
               /\ foreground_pid' = NoPid
       /\ (pc = "bg_sent" /\ last' = <<"bg_sent", 0>>)
            => /\ pc' = "prompt"
               /\ HasJob(jobs', jid)
               /\ find_job_by_jid(jobs', jid).status = Running
               /\ pid \in DOMAIN pid_to_jid' /\ pid_to_jid'[pid] = jid
               /\ foreground_pid' = NoPid]_vars

\* C10: the foreground slot holds a pid only while a foreground wait is in
\* progress, and then the pid being waited for; it is empty at the prompt and
\* in every other operation, also after a wait that ended with an error.
C10_SlotOnlyInWait ==
    /\ foreground_pid \in {NoPid} \cup Pids
    /\ ~InFgWait => foreground_pid = NoPid
    /\ InFgWait => foreground_pid = pid
C10_Witness ==
    /\ last = <<"wait_error", 0>>
    /\ pc = "prompt"
    /\ foreground_pid = NoPid

\* C11: an interactive interrupt or stop request is forwarded to the process
\* group of the pid in the foreground slot and to no other process; with the
\* slot empty no process receives it.  A step of sigint_handler or
\* sigtstp_handler is the only step that leaves everything but the step labels
\* unchanged.  RelayedToSlot is the statement as written: an occupied slot
\* always gets the signal.
RelayStep ==
    /\ last' = NoStep
    /\ UNCHANGED <<jobs, next_job_id, pid_to_jid, foreground_pid, proc, next_pid, now,
                   pc, jid, pid, wstatus, assigned, reports>>
RelaySignals == {SIGINT, SIGTSTP}
C11_RelayedToSlot ==
    [][RelayStep =>
         /\ foreground_pid = NoPid => sent' = {}
         /\ foreground_pid # NoPid =>
               \E sig \in RelaySignals : sent' = {<<foreground_pid, sig>>}]_vars
\* C11, amended: an occupied slot gets the signal when its process still
\* exists (os.getpgid raises ProcessLookupError once the process has been
\* reaped, and the handler then sends nothing); no step ever sends an
\* interrupt or a stop request to a pid other than the slot's.
C11_RelayedToLiveSlot ==
    [][/\ RelayStep =>
            /\ foreground_pid = NoPid => sent' = {}
            /\ (foreground_pid # NoPid /\ Exists(proc[foreground_pid])) =>
                  \E sig \in RelaySignals : sent' = {<<foreground_pid, sig>>}
            /\ (foreground_pid # NoPid /\ ~Exists(proc[foreground_pid])) => sent' = {}
       /\ \A m \in sent' : m[2] \in RelaySignals => m[1] = foreground_pid]_vars
\* the slot's process has just been sent SIGTSTP while a background job runs
C11_Witness ==
    /\ sent = {<<foreground_pid, SIGTSTP>>}
    /\ pc = "launch_wait"
    /\ \E r \in Records(jobs) : r.status = Running /\ proc[r.pid].st = "run"
                                 /\ r.pid # foreground_pid

\* C12: when the interactive loop ends, by the exit command or by end of
\* input, every job of the registry whose process still exists has been sent
\* SIGTERM at its process group by that step, and the step collects no child
\* (no wait).
C12_ExitTerminatesAll ==
    [][(pc = "prompt" /\ pc' = "exited" /\ last' \in {<<"exit", 0>>, <<"eof", 0>>}) =>
         /\ \A r \in Records(jobs) :
               Exists(proc[r.pid]) => <<r.pid, SIGTERM>> \in sent'
         /\ proc' = proc
         /\ reports' = reports]_vars

\* C13: a background job whose process exits with code c comes to have status
\* Exited(c), exit code c and no pid index entry, and its record stays until
\* a prune step finds its age above DONE_ENTRY_TTL.
\* TerminationRecorded: once the process of a record has been collected (and
\* the main thread is not in the middle of recording that very wait result),
\* the record is terminal and its pid is out of the index.
TerminationRecorded ==
    \A r \in Records(jobs) :
        (proc[r.pid].st = "reaped" /\ ~(pc = "fg_got" /\ pid = r.pid))
            => IsTerminal(r.status) /\ r.pid \notin DOMAIN pid_to_jid
\* ExitStep: the step that collects the exit writes Exited(c) and c, whether it
\* is the reaper or the wait of fg; an Exited record leaves the table only in
\* a prune step and only above the retention window, and does leave it then.
ExitStep ==
    /\ \A r \in Records(jobs) :
          (/\ proc[r.pid].st = "zombie" /\ proc[r.pid].how[1] = "exited"
           /\ proc'[r.pid].st = "reaped" /\ pc' = pc /\ wstatus' = wstatus)
          => /\ HasJob(jobs', r.jid)
             /\ find_job_by_jid(jobs', r.jid).status = Exited(proc[r.pid].how[2])
             /\ find_job_by_jid(jobs', r.jid).exitcode = proc[r.pid].how[2]
             /\ r.pid \notin DOMAIN pid_to_jid'
    /\ (pc = "fg_got" /\ wstatus[1] = "exited" /\ pc' = "prompt")
          => /\ HasJob(pruning'[1], jid)
             /\ find_job_by_jid(pruning'[1], jid).status = Exited(wstatus[2])
             /\ find_job_by_jid(pruning'[1], jid).exitcode = wstatus[2]
             /\ pid \notin DOMAIN pid_to_jid'
    /\ \A r \in Records(jobs) :
          (r.status[1] = "Exited" /\ ~HasJob(jobs', r.jid))
          => pruning' # <<>> /\ Age(r) > DONE_ENTRY_TTL
    /\ pruning' # <<>> =>
          \A r \in Records(pruning'[1]) :
              (r.status[1] = "Exited" /\ Age(r) > DONE_ENTRY_TTL) => ~HasJob(jobs', r.jid)
C13_BgExitRecorded == []TerminationRecorded /\ [][ExitStep]_vars

\* C14: a launch whose spawn fails leaves the registry, the pid index, the
\* foreground slot and the job id counter as they were: the table the command
\* returns with is the table it started with, and no id has been handed out.
C14_FailedLaunchNoEffect ==
    [][(pc = "prompt" /\ last' = <<"launch_fail", 0>>) =>
         /\ pruning' = <<jobs>>
         /\ pid_to_jid' = pid_to_jid
         /\ foreground_pid' = foreground_pid
         /\ next_job_id' = next_job_id
         /\ assigned' = assigned
         /\ proc' = proc
         /\ pc' = "prompt"]_vars
\* a failed launch after one job has been registered and is still in the table
C14_Witness ==
    /\ last = <<"launch_fail", 0>>
    /\ Len(jobs) = 1
    /\ next_job_id = 2
    /\ jobs[1].pid \in DOMAIN pid_to_jid

\* C15: kill %N, fg N and bg N with N not the id of a record (or fg / bg
\* without an id on an empty registry) send no signal and leave the registry,
\* the pid index, the foreground slot and the id counter unchanged; the
\* command returns to the prompt.
UnknownJob(arg) ==
    \/ arg # NoJid /\ ~HasJob(jobs, arg)
    \/ arg = NoJid /\ Len(jobs) = 0
C15_UnknownJobNoEffect ==
    [][\A arg \in JidArgs :
         (/\ pc = "prompt"
          /\ \/ last' \in {<<"fg", arg>>, <<"bg", arg>>} /\ UnknownJob(arg)
             \/ last' = <<"kill%", arg>> /\ ~HasJob(jobs, arg))
         => /\ sent' = {}
            /\ pruning' = <<jobs>>
            /\ pid_to_jid' = pid_to_jid
            /\ foreground_pid' = foreground_pid
            /\ next_job_id' = next_job_id
            /\ proc' = proc
            /\ pc' = "prompt"]_vars
\* fg on the id of a job that has been pruned, with a live job in the table
C15_Witness ==
    /\ last = <<"fg", 1>>
    /\ pc = "prompt"
    /\ Len(assigned) = 2
    /\ ~HasJob(jobs, 1)
    /\ HasJob(jobs, 2)
    /\ proc[find_job_by_jid(jobs, 2).pid].st = "run"

\* C16: no input line ends the interactive loop except the exit command and
\* end of input: every other line, whatever goes wrong in it, is followed by
\* the next prompt.
C16_LoopSurvivesErrors ==
    [][(pc = "prompt" /\ pc' = "exited") => last' \in {<<"exit", 0>>, <<"eof", 0>>}]_vars

\* C17: the steps of a foreground launch leave the registry, the pid index
\* and the job id counter as they were, up to the one that interprets the wait
\* result: that one adds a record (with a new id and an index entry) exactly
\* when the wait returned a stop, and otherwise (exit, signal, or a wait that
\* failed) adds nothing.
RegistryKept(js) ==
    /\ js = jobs
    /\ pid_to_jid' = pid_to_jid
    /\ next_job_id' = next_job_id
    /\ assigned' = assigned
C17_FgLaunchLazyRecord ==
    [][/\ (pc = "prompt" /\ last' = <<"launch", 0>>) => RegistryKept(jobs')
       /\ (pc = "launch_wait" /\ last' = <<"wait", 0>>) => RegistryKept(jobs')
       /\ (pc = "launch_wait" /\ last' = <<"wait_error", 0>>) => RegistryKept(pruning'[1])
       /\ (pc = "launch_got" /\ last' = <<"launch_got", 0>> /\ wstatus[1] # "stopped")
             => RegistryKept(pruning'[1])
       /\ (pc = "launch_got" /\ last' = <<"launch_got", 0>> /\ wstatus[1] = "stopped")
             => /\ pruning'[1] = Append(jobs, [jid |-> next_job_id, pid |-> pid,
                                                status |-> Stopped, start_time |-> now,
                                                exitcode |-> NoCode])
                /\ pid_to_jid' = IdxPut(pid_to_jid, pid, next_job_id)
                /\ next_job_id' = next_job_id + 1]_vars
\* the second process ran in the foreground and was collected by the wait
\* without stopping: the table still holds only the background job
C17_Witness ==
    /\ last = <<"launch_got", 0>>
    /\ pc = "prompt"
    /\ next_pid = 3
    /\ proc[2].st = "reaped"
    /\ Len(jobs) = 1 /\ jobs[1].pid = 1 /\ jobs[1].status = Running
    /\ next_job_id = 2

\* C18: an invocation of the reaper changes neither the foreground slot nor
\* the job id counter, adds and removes no record, and touches only the
\* records and index entries of the pids it collects an event for that are in
\* the pid index: when none of the collected pids is indexed, registry and
\* index are unchanged.  A reaper step is the only step not of the main thread
\* (last' = NoStep) that takes a pending wait event away.
ReaperStep ==
    /\ last' = NoStep
    /\ \E p \in Pids : Reapable(proc[p]) /\ ~Reapable(proc'[p])
C18_ReaperFrame ==
    [][ReaperStep =>
         /\ foreground_pid' = foreground_pid
         /\ next_job_id' = next_job_id
         /\ assigned' = assigned
         /\ pc' = pc
         /\ Len(jobs') = Len(jobs)
         /\ \A i \in 1..Len(jobs) :
               /\ jobs'[i].jid = jobs[i].jid
               /\ jobs'[i].pid = jobs[i].pid
               /\ jobs'[i].start_time = jobs[i].start_time
               /\ (\A p \in DOMAIN pid_to_jid :
                      Reapable(proc[p]) => pid_to_jid[p] # jobs[i].jid)
                  => jobs'[i] = jobs[i]
         /\ DOMAIN pid_to_jid' \subseteq DOMAIN pid_to_jid
         /\ \A p \in DOMAIN pid_to_jid :
               ~Reapable(proc[p]) => p \in DOMAIN pid_to_jid' /\ pid_to_jid'[p] = pid_to_jid[p]
         /\ (\A p \in Pids : Reapable(proc[p]) => p \notin DOMAIN pid_to_jid)
               => jobs' = jobs /\ pid_to_jid' = pid_to_jid]_vars
\* the reaper has collected the unregistered foreground process (only the
\* reaper can while the main thread is still blocked in the wait), with a
\* live job in the registry
C18_Witness ==
    /\ last = NoStep
    /\ pc = "launch_wait"
    /\ proc[pid].st = "reaped"
    /\ foreground_pid = pid
    /\ Len(jobs) = 1 /\ jobs[1].status = Running /\ jobs[1].pid \in DOMAIN pid_to_jid

\* C19: every child that is running or stopped is the pid in the foreground
\* slot or the pid of a record of the registry; no live child is untracked.
Tracked(p) == p = foreground_pid \/ \E r \in Records(jobs) : r.pid = p
====
